---- MODULE Spec2Model ----
(***************************************************************************)
(* The komorebi widget of komorebi-bar                                     *)
(* (komorebi-bar/src/widgets/komorebi.rs): the per-monitor presentation    *)
(* model MonitorInfo, its rebuild from a window-manager State on every     *)
(* notification (MonitorInfo::update), and the commands the widget sends   *)
(* to the window manager when the user clicks.                             *)
(*                                                                         *)
(* Rust indices are kept 0-based: element i of a Vec v is v[i + 1] here.   *)
(* Option<T> is a sequence of length at most one: None or Some(x).         *)
(***************************************************************************)
EXTENDS Integers, Sequences, FiniteSets, TLC

None == <<>>
Some(x) == <<x>>
IsSome(o) == o # <<>>
Unwrap(o) == o[1]

(***************************************************************************)
(* Bounds of the explored inputs.                                          *)
(***************************************************************************)
\* monitors in a snapshot: 0..MaxMonitors; selectors: None, 0..MaxMonitors
MaxMonitors == 2
\* workspaces of a monitor of the catalogue: 0 or 1..MaxWorkspaces
MaxWorkspaces == 2
\* tiled containers of a generated workspace (container projector)
MaxContainers == 2
\* windows of a generated container
MaxWindows == 2
\* floating windows of a generated workspace
MaxFloats == 2

(***************************************************************************)
(* The window manager's data (komorebi_client::{Window, Container,         *)
(* Workspace, Monitor, State}), as far as this file reads it.              *)
(***************************************************************************)
\* Window: a native window identifier; is_focused() is "this is the
\* foreground window" of the desktop.
Window(hwnd, focused) == [hwnd |-> hwnd, is_focused |-> focused]

\* Container: a Ring of windows (elements and focused index) and the lock.
Container(windows, focused, locked) ==
    [windows |-> windows, focused |-> focused, locked |-> locked]

\* Ring::focused(): the element at the focused index, if there is one.
RingFocused(elements, focused) ==
    IF focused < Len(elements) THEN Some(elements[focused + 1]) ELSE None

\* Workspace::is_empty(): the workspace holds no window at all.
WorkspaceIsEmpty(ws) ==
    /\ ws.containers = <<>>
    /\ ws.monocle_container = None
    /\ ws.floating_windows = <<>>

(***************************************************************************)
(* WindowInfo::from(&Window): the title may be unavailable, the icon may   *)
(* fail to load; both depend on the window alone.                          *)
(***************************************************************************)
WindowTitle(w) == IF w.hwnd % 3 = 0 THEN None ELSE Some(w.hwnd)
WindowIcon(w) == IF w.hwnd % 2 = 0 THEN Some(w.hwnd) ELSE None
WindowInfoFrom(w) == [title |-> WindowTitle(w), icon |-> WindowIcon(w)]


(***************************************************************************)
(* ContainerInfo                                                           *)
(***************************************************************************)
from_container(container, is_focused) ==
    [windows |-> [i \in 1..Len(container.windows) |-> WindowInfoFrom(container.windows[i])],
     focused_window_idx |-> container.focused,
     is_focused |-> is_focused,
     is_locked |-> container.locked]

from_window(window) ==
    [windows |-> <<WindowInfoFrom(window)>>,
     focused_window_idx |-> 0,
     is_focused |-> window.is_focused,
     is_locked |-> FALSE]

\* mutant: the monocle container is flagged whatever the floating windows say
from_all_containers_monocle_always(ws) ==
    LET has_focused_float ==
            \E i \in 1..Len(ws.floating_windows) : ws.floating_windows[i].is_focused
        monocle ==
            IF IsSome(ws.monocle_container)
            THEN <<from_container(Unwrap(ws.monocle_container), TRUE)>>
            ELSE <<>>
        has_focused_monocle_or_float == has_focused_float \/ monocle # <<>>
        tiled ==
            [i \in 1..Len(ws.containers) |->
                from_container(ws.containers[i],
                               ~has_focused_monocle_or_float /\ (i - 1) = ws.focused)]
        floats == [i \in 1..Len(ws.floating_windows) |-> from_window(ws.floating_windows[i])]
    IN  monocle \o tiled \o floats

from_all_containers(ws) ==
    LET has_focused_float ==
            \E i \in 1..Len(ws.floating_windows) : ws.floating_windows[i].is_focused
        monocle ==
            IF IsSome(ws.monocle_container)
            THEN <<from_container(Unwrap(ws.monocle_container), ~has_focused_float)>>
            ELSE <<>>
        has_focused_monocle_or_float == has_focused_float \/ monocle # <<>>
        tiled ==
            [i \in 1..Len(ws.containers) |->
                from_container(ws.containers[i],
                               ~has_focused_monocle_or_float /\ (i - 1) = ws.focused)]
        floats == [i \in 1..Len(ws.floating_windows) |-> from_window(ws.floating_windows[i])]
    IN  monocle \o tiled \o floats

\* mutant: the monocle container is looked at before the floating windows
from_focused_container_monocle_first(ws) ==
    LET focused_floats ==
            {i \in 1..Len(ws.floating_windows) : ws.floating_windows[i].is_focused}
    IN  IF IsSome(ws.monocle_container)
        THEN Some(from_container(Unwrap(ws.monocle_container), TRUE))
        ELSE IF focused_floats # {}
        THEN Some(from_window(
                ws.floating_windows[CHOOSE i \in focused_floats :
                                        \A j \in focused_floats : i <= j]))
        ELSE IF IsSome(RingFocused(ws.containers, ws.focused))
        THEN Some(from_container(Unwrap(RingFocused(ws.containers, ws.focused)), TRUE))
        ELSE None

from_focused_container(ws) ==
    LET focused_floats ==
            {i \in 1..Len(ws.floating_windows) : ws.floating_windows[i].is_focused}
    IN  IF focused_floats # {}
        THEN Some(from_window(
                ws.floating_windows[CHOOSE i \in focused_floats :
                                        \A j \in focused_floats : i <= j]))
        ELSE IF IsSome(ws.monocle_container)
        THEN Some(from_container(Unwrap(ws.monocle_container), TRUE))
        ELSE IF IsSome(RingFocused(ws.containers, ws.focused))
        THEN Some(from_container(Unwrap(RingFocused(ws.containers, ws.focused)), TRUE))
        ELSE None

(***************************************************************************)
(* MonitorInfo::workspaces and MonitorInfo::resolve_layout                 *)
(***************************************************************************)
\* containers.iter().position(|c| c.is_focused)
PositionFocused(containers) ==
    LET hits == {i \in 1..Len(containers) : containers[i].is_focused}
    IN  IF hits = {} THEN None
        ELSE Some((CHOOSE i \in hits : \A j \in hits : i <= j) - 1)

\* mutant: the selected workspace is hidden like any other empty one
workspace_info_hides_selected(show_all_icons, hide_empty_ws, focused_ws_idx, index, ws) ==
    LET containers ==
            IF show_all_icons THEN from_all_containers(ws)
            ELSE from_focused_container(ws)
    IN  [name |-> IF IsSome(ws.name) THEN Unwrap(ws.name) ELSE ToString(index + 1),
         containers |-> containers,
         focused_container_idx |-> PositionFocused(containers),
         layer |-> ws.layer,
         should_show |-> ~hide_empty_ws \/ ~WorkspaceIsEmpty(ws),
         is_selected |-> focused_ws_idx = Some(index),
         has_icons |-> \E c \in 1..Len(containers) :
                          \E w \in 1..Len(containers[c].windows) :
                              IsSome(containers[c].windows[w].icon)]

workspace_info(show_all_icons, hide_empty_ws, focused_ws_idx, index, ws) ==
    LET containers ==
            IF show_all_icons THEN from_all_containers(ws)
            ELSE from_focused_container(ws)
    IN  [name |-> IF IsSome(ws.name) THEN Unwrap(ws.name) ELSE ToString(index + 1),
         containers |-> containers,
         focused_container_idx |-> PositionFocused(containers),
         layer |-> ws.layer,
         should_show |-> \/ ~hide_empty_ws
                         \/ focused_ws_idx = Some(index)
                         \/ ~WorkspaceIsEmpty(ws),
         is_selected |-> focused_ws_idx = Some(index),
         has_icons |-> \E c \in 1..Len(containers) :
                          \E w \in 1..Len(containers[c].windows) :
                              IsSome(containers[c].windows[w].icon)]

workspaces(show_all_icons, hide_empty_ws, focused_ws_idx, wss) ==
    [i \in 1..Len(wss) |->
        workspace_info(show_all_icons, hide_empty_ws, focused_ws_idx, i - 1, wss[i])]

\* mutant: the global pause is looked at before the floating workspace
resolve_layout_pause_first(focused_ws, is_paused) ==
    IF IsSome(focused_ws.monocle_container) THEN <<"Monocle">>
    ELSE IF is_paused THEN <<"Paused">>
    ELSE IF ~focused_ws.tile THEN <<"Floating">>
    ELSE IF focused_ws.layout[1] = "Default" THEN <<"Default", focused_ws.layout[2]>>
    ELSE <<"Custom">>

resolve_layout(focused_ws, is_paused) ==
    IF IsSome(focused_ws.monocle_container) THEN <<"Monocle">>
    ELSE IF ~focused_ws.tile THEN <<"Floating">>
    ELSE IF is_paused THEN <<"Paused">>
    ELSE IF focused_ws.layout[1] = "Default" THEN <<"Default", focused_ws.layout[2]>>
    ELSE <<"Custom">>


(***************************************************************************)
(* Snapshots handed to MonitorInfo::update.  The workspaces come from a    *)
(* catalogue covering: an empty workspace; tiled stacks; a monocle         *)
(* container with and without tiling; floating windows, focused or not;    *)
(* the default and the custom layout; Ring indices inside and outside      *)
(* their Ring (State is deserialised as sent, nothing validates it).       *)
(***************************************************************************)
Workspace(name, containers, focused, monocle, floats, tile, layer, layout) ==
    [name |-> name, containers |-> containers, focused |-> focused,
     monocle_container |-> monocle, floating_windows |-> floats,
     tile |-> tile, layer |-> layer, layout |-> layout]

WorkspaceCatalogue ==
    << Workspace(None, <<>>, 0, None, <<>>, TRUE, "Tiling", <<"Default", "BSP">>),
       Workspace(Some("web"),
                 << Container(<<Window(1, FALSE), Window(2, FALSE)>>, 1, FALSE),
                    Container(<<Window(3, FALSE)>>, 0, TRUE) >>,
                 1, None, <<>>, TRUE, "Tiling", <<"Custom">>),
       Workspace(None, <<>>, 0,
                 Some(Container(<<Window(4, FALSE)>>, 0, FALSE)),
                 <<Window(5, TRUE)>>, FALSE, "Floating", <<"Default", "Columns">>),
       Workspace(None,
                 << Container(<<Window(7, FALSE), Window(8, FALSE)>>, 2, FALSE) >>,
                 0, None, <<Window(6, FALSE)>>, FALSE, "Floating",
                 <<"Default", "BSP">>),
       Workspace(Some("mono"),
                 << Container(<<Window(9, FALSE)>>, 0, FALSE) >>, 0,
                 Some(Container(<<Window(10, FALSE), Window(11, FALSE)>>, 1, TRUE)),
                 <<>>, TRUE, "Tiling", <<"Default", "BSP">>) >>

CatalogueAt(b) == WorkspaceCatalogue[((b - 1) % Len(WorkspaceCatalogue)) + 1]

\* Monitor: a Ring of k workspaces (the catalogue from b on), its focused
\* index f, and the monitor's work-area offset.
Monitor(b, k, f) ==
    [workspaces |-> [j \in 1..k |-> CatalogueAt(b + j - 1)],
     focused |-> f,
     work_area_offset |-> IF b % 2 = 1 THEN Some(b) ELSE None]

\* MaxMonitors monitors, each with MaxWorkspaces workspaces
FullList(b, f) == [j \in 1..MaxMonitors |-> Monitor(b + j - 1, MaxWorkspaces, f)]

\* the catalogue cut into lists of MaxMonitors monitors with every focused
\* index, the shorter lists (down to no monitor at all), and a monitor
\* that has no workspace
MonitorLists ==
    { FullList(b, f) : b \in {c \in 1..Len(WorkspaceCatalogue) :
                                  (c - 1) % MaxMonitors = 0},
                       f \in 0..MaxWorkspaces }
    \cup { SubSeq(FullList(1, 0), 1, n) : n \in 0..MaxMonitors }
    \cup { <<Monitor(1, 0, 0)>> }

\* monitor_usr_idx_map of a State with n monitors
UsrIdxMap(n) == [i \in 0..(n - 1) |-> i]

States ==
    { [monitors |-> ms, is_paused |-> p, mouse_follows_focus |-> m,
       monitor_usr_idx_map |-> UsrIdxMap(Len(ms))] :
        ms \in MonitorLists, p \in BOOLEAN, m \in BOOLEAN }

Selectors == {None} \cup {Some(i) : i \in 0..MaxMonitors}

(***************************************************************************)
(* WorkspacesBar and FocusedContainerBar: the renderer is chosen once,     *)
(* when the widget is made from its configuration, and called for every    *)
(* entry on every redraw.  What a renderer draws is the sequence of its    *)
(* calls on the Ui.                                                        *)
(***************************************************************************)
DisplayFormats ==
    {"Icon", "Text", "IconAndText", "IconAndTextOnSelected", "TextAndIconOnSelected"}

WorkspacesDisplayFormats ==
    {<<"AllIcons">>, <<"AllIconsAndText">>, <<"AllIconsAndTextOnSelected">>}
        \cup {<<"Existing", f>> : f \in DisplayFormats}

\* impl From<KomorebiWorkspacesConfig> for WorkspacesBar
WorkspacesBarFrom(value) ==
    LET display == IF IsSome(value.display) THEN Unwrap(value.display)
                   ELSE <<"Existing", "Text">>
        renderer ==
            CASE display \in {<<"AllIcons">>, <<"Existing", "Icon">>}
                    -> "show_icons_or_fallback"
              [] display \in {<<"AllIconsAndText">>, <<"Existing", "IconAndText">>}
                    -> "show_icons_and_label"
              [] display \in {<<"AllIconsAndTextOnSelected">>,
                              <<"Existing", "IconAndTextOnSelected">>}
                    -> "show_icons_sel_label"
              [] display = <<"Existing", "TextAndIconOnSelected">>
                    -> "show_label_sel_icons"
              [] display = <<"Existing", "Text">>
                    -> "show_text"
    IN  [renderer |-> renderer, enable |-> value.enable]

\* .on_hover_text(..)
on_hover_text(text) == <<[draw |-> "hover_text", text |-> text]>>

\* WorkspacesBar::show_icons: one image per window that has an icon
show_icons(ws) ==
    <<[draw |-> "icons",
       containers |-> [c \in 1..Len(ws.containers) |->
                          [big |-> ws.containers[c].is_focused,
                           images |-> SelectSeq(
                               [w \in 1..Len(ws.containers[c].windows) |->
                                   ws.containers[c].windows[w].icon],
                               IsSome)]]]>>

\* WorkspacesBar::show_fallback_icon
show_fallback_icon(ws) == <<[draw |-> "fallback_icon", selected |-> ws.is_selected]>>

\* WorkspacesBar::show_label
show_label(ws) == <<[draw |-> "label", text |-> ws.name, selected |-> ws.is_selected]>>

show_icons_or_fallback(ws) ==
    IF ws.has_icons
    THEN show_icons(ws) \o on_hover_text(ws.name)
    ELSE show_fallback_icon(ws) \o on_hover_text(ws.name)

show_icons_and_label(ws) ==
    (IF ws.has_icons THEN show_icons(ws) ELSE <<>>) \o show_label(ws)

\* mutant: the fallback icon does not look at the selection
show_icons_sel_label_fallback_when_selected(ws) ==
    (IF ws.has_icons THEN show_icons(ws) ELSE show_fallback_icon(ws))
    \o (IF ws.is_selected THEN show_label(ws) ELSE on_hover_text(ws.name))

show_icons_sel_label(ws) ==
    (IF ws.has_icons THEN show_icons(ws)
     ELSE IF ~ws.is_selected THEN show_fallback_icon(ws)
     ELSE <<>>)
    \o (IF ws.is_selected THEN show_label(ws) ELSE on_hover_text(ws.name))

show_label_sel_icons(ws) ==
    (IF ws.has_icons /\ ws.is_selected THEN show_icons(ws) ELSE <<>>) \o show_label(ws)

show_text(ws) == show_label(ws)

\* (bar.renderer)(bar, ctx, ui, workspace)
WorkspaceRender(workspaces_bar, ws) ==
    CASE workspaces_bar.renderer = "show_icons_or_fallback" -> show_icons_or_fallback(ws)
      [] workspaces_bar.renderer = "show_icons_and_label" -> show_icons_and_label(ws)
      [] workspaces_bar.renderer = "show_icons_sel_label" -> show_icons_sel_label(ws)
      [] workspaces_bar.renderer = "show_label_sel_icons" -> show_label_sel_icons(ws)
      [] workspaces_bar.renderer = "show_text" -> show_text(ws)

\* impl From<KomorebiFocusedContainerConfig> for FocusedContainerBar; the
\* renderer is the closure of one match arm, named after the arm
FocusedContainerBarFrom(value) ==
    LET format == IF IsSome(value.display) THEN Unwrap(value.display)
                  ELSE IF IsSome(value.show_icon) /\ Unwrap(value.show_icon)
                  THEN "IconAndText"
                  ELSE "Text"
        renderer ==
            CASE format = "Icon" -> "Icon"
              [] format = "Text" -> "Text"
              [] format = "IconAndText" -> "IconAndText"
              [] format = "IconAndTextOnSelected" -> "IconAndTextOnSelected"
              [] format = "TextAndIconOnSelected" -> "TextAndIconOnSelected"
    IN  [enable |-> value.enable, renderer |-> renderer]

\* mutant: the tooltip does not look at HOVEL
show_icon_always_hover(hovel, info) ==
    <<[draw |-> "icon", images |-> info.icon]>>
    \o (IF IsSome(info.title) THEN on_hover_text(Unwrap(info.title)) ELSE <<>>)

\* FocusedContainerBar::show_icon::<HOVEL>
show_icon(hovel, info) ==
    <<[draw |-> "icon", images |-> info.icon]>>
    \o (IF hovel /\ IsSome(info.title) THEN on_hover_text(Unwrap(info.title)) ELSE <<>>)

\* FocusedContainerBar::show_title
show_title(info, color) ==
    IF IsSome(info.title)
    THEN <<[draw |-> "title", text |-> Unwrap(info.title), color |-> color]>>
    ELSE <<>>

\* (bar.renderer)(bar, ctx, ui, window, text_color, idx == focused_idx)
WindowRender(focused_container_bar, info, color, focused) ==
    CASE focused_container_bar.renderer = "Icon" -> show_icon(TRUE, info)
      [] focused_container_bar.renderer = "Text" -> show_title(info, color)
      [] focused_container_bar.renderer = "IconAndText"
            -> show_icon(FALSE, info) \o show_title(info, color)
      [] focused_container_bar.renderer = "IconAndTextOnSelected"
            -> show_icon(FALSE, info) \o (IF focused THEN show_title(info, color) ELSE <<>>)
      [] focused_container_bar.renderer = "TextAndIconOnSelected"
            -> (IF focused THEN show_icon(FALSE, info) ELSE <<>>) \o show_title(info, color)

\* KomorebiConfig, the two widgets of it that choose a renderer
KomorebiConfig(workspaces_config, focused_container_config) ==
    [workspaces |-> workspaces_config, focused_container |-> focused_container_config]

\* impl From<&KomorebiConfig> for Komorebi: value.workspaces.map(WorkspacesBar::from),
\* value.focused_container.map(FocusedContainerBar::from)
KomorebiFrom(value) ==
    [config |-> value,
     workspaces |-> IF IsSome(value.workspaces)
                    THEN Some(WorkspacesBarFrom(Unwrap(value.workspaces)))
                    ELSE None,
     focused_container |-> IF IsSome(value.focused_container)
                           THEN Some(FocusedContainerBarFrom(Unwrap(value.focused_container)))
                           ELSE None]

(***************************************************************************)
(* State of the widget.                                                    *)
(*   monitor_info : Komorebi.komorebi_notification_state.0 (MonitorInfo)   *)
(*   panicked     : update indexed a Vec out of bounds; the bar is gone    *)
(*   sends        : the batches handed to komorebi_client by the last      *)
(*                  click, one element per send_batch / send_message call  *)
(*   state        : the State of the last update whose selector was in     *)
(*                  range (history)                                        *)
(*   last         : the last operation, its outcome and, where a property  *)
(*                  needs them, its arguments (history)                    *)
(*   proj_ws,     : a workspace and what the container projector made of   *)
(*   proj           it (the specification of the projector alone)          *)
(*   bar          : Komorebi.workspaces and Komorebi.focused_container,    *)
(*                  the two widgets with their chosen renderer, and the    *)
(*                  KomorebiConfig they were made from                     *)
(*   frame        : what the last call of a renderer drew                  *)
(*   wm           : the window manager at the other end of the socket: its *)
(*                  mouse-follows-focus setting and the focused workspace  *)
(*                  of the bar's monitor                                   *)
(*   queue        : the notifications the window manager has sent and the  *)
(*                  bar has not handled yet, oldest first                  *)
(***************************************************************************)
VARIABLES monitor_info, panicked, sends, state, last, proj_ws, proj, bar, frame,
          wm, queue

vars == <<monitor_info, panicked, sends, state, last, proj_ws, proj, bar, frame,
          wm, queue>>

\* impl From<&KomorebiConfig> for Komorebi
NewMonitorInfo(monitor_index, hide_empty_workspaces) ==
    [workspaces |-> <<>>,
     layout |-> <<"Default", "BSP">>,
     mouse_follows_focus |-> TRUE,
     work_area_offset |-> None,
     stack_accent |-> None,
     monitor_index |-> monitor_index,
     monitor_usr_idx_map |-> UsrIdxMap(0),
     focused_workspace_idx |-> None,
     show_all_icons |-> FALSE,
     hide_empty_workspaces |-> hide_empty_workspaces]

\* a configuration with the workspaces and the focused-container widget
\* enabled, their display left to the default
EnabledConfig(hide_empty_workspaces) ==
    KomorebiConfig(
        Some([enable |-> TRUE, hide_empty_workspaces |-> hide_empty_workspaces,
              display |-> None]),
        Some([enable |-> TRUE, show_icon |-> None, display |-> None]))

Init ==
    /\ \E i \in 0..(MaxMonitors - 1), h \in BOOLEAN :
          /\ monitor_info = NewMonitorInfo(i, h)
          /\ bar = KomorebiFrom(EnabledConfig(h))
    /\ panicked = FALSE
    /\ sends = <<>>
    /\ state = None
    /\ last = [op |-> "new"]
    /\ proj_ws = None
    /\ proj = None
    /\ frame = None
    /\ wm = [mouse_follows_focus |-> TRUE, focused |-> 0]
    /\ queue = <<>>

(***************************************************************************)
(* MonitorInfo::update                                                     *)
(***************************************************************************)
\* the guard of the match: Some(idx) if idx < state.monitors.elements().len()
SelectorInRange(monitor_index, st) ==
    IsSome(monitor_index) /\ Unwrap(monitor_index) < Len(st.monitors)

\* mutant: show_all_icons is written after the match, with the rest
update_head_leaves_show_all_icons(info, st, show_all_icons) ==
    [info EXCEPT !.monitor_usr_idx_map = st.monitor_usr_idx_map]

\* mutant: mouse_follows_focus is copied before the match, not after it
update_head_copies_mouse_follows_focus(info, st, show_all_icons) ==
    [info EXCEPT !.show_all_icons = show_all_icons,
                 !.monitor_usr_idx_map = st.monitor_usr_idx_map,
                 !.mouse_follows_focus = st.mouse_follows_focus]

\* the two assignments before the match
update_head(info, st, show_all_icons) ==
    [info EXCEPT !.show_all_icons = show_all_icons,
                 !.monitor_usr_idx_map = st.monitor_usr_idx_map]

\* mutant: an index already in the model is not replaced
update_monitor_keeps_focus(info, idx, st) ==
    LET monitor == st.monitors[idx + 1]
    IN  [info EXCEPT !.monitor_index = idx,
                     !.mouse_follows_focus = st.mouse_follows_focus,
                     !.work_area_offset = monitor.work_area_offset,
                     !.focused_workspace_idx =
                         IF IsSome(info.focused_workspace_idx)
                            /\ Unwrap(info.focused_workspace_idx) < Len(monitor.workspaces)
                         THEN info.focused_workspace_idx
                         ELSE Some(monitor.focused)]

\* from the match arm to focused_workspace_idx
update_monitor(info, idx, st) ==
    LET monitor == st.monitors[idx + 1]
    IN  [info EXCEPT !.monitor_index = idx,
                     !.mouse_follows_focus = st.mouse_follows_focus,
                     !.work_area_offset = monitor.work_area_offset,
                     !.focused_workspace_idx = Some(monitor.focused)]

\* monitor.workspaces()[monitor.focused_workspace_idx()] is inside the Vec
FocusedWorkspaceInBounds(info, st) ==
    LET monitor == st.monitors[info.monitor_index + 1]
    IN  monitor.focused < Len(monitor.workspaces)

\* layout and workspaces
update_rebuild(info, st) ==
    LET monitor == st.monitors[info.monitor_index + 1]
    IN  [info EXCEPT
            !.layout = resolve_layout(monitor.workspaces[monitor.focused + 1],
                                      st.is_paused),
            !.workspaces = workspaces(info.show_all_icons,
                                      info.hide_empty_workspaces,
                                      info.focused_workspace_idx,
                                      monitor.workspaces)]

Update(monitor_index, st, show_all_icons) ==
    LET head == update_head(monitor_info, st, show_all_icons)
        mon == update_monitor(head, Unwrap(monitor_index), st)
        \* history: the index this call replaces was written by the click
        \* just before it and is not the one the State reports
        overwrites_click ==
            /\ last.op = "select_workspace"
            /\ last.ok
            /\ monitor_info.focused_workspace_idx # mon.focused_workspace_idx
    IN  /\ ~panicked
        /\ IF ~SelectorInRange(monitor_index, st)
           THEN /\ monitor_info' = head
                /\ UNCHANGED <<panicked, state>>
                /\ last' = [op |-> "update",
                            outcome |-> IF IsSome(monitor_index)
                                        THEN "out_of_range" ELSE "absent",
                            args |-> [show_all_icons |-> show_all_icons,
                                      monitor_usr_idx_map |-> st.monitor_usr_idx_map]]
           ELSE /\ state' = Some(st)
                /\ IF FocusedWorkspaceInBounds(mon, st)
                   THEN /\ monitor_info' = update_rebuild(mon, st)
                        /\ UNCHANGED panicked
                        /\ last' = [op |-> "update", outcome |-> "rebuilt",
                                    optimistic |-> overwrites_click]
                   ELSE /\ monitor_info' = mon
                        /\ panicked' = TRUE
                        /\ last' = [op |-> "update", outcome |-> "panic"]
        /\ sends' = <<>>
        /\ UNCHANGED <<proj_ws, wm, queue, proj, bar, frame>>

\* KomorebiNotificationStateNew::update_from_config: the configuration was
\* loaded again, the widgets are the ones made from it and the model goes on
\* with its hide_empty_workspaces
UpdateFromConfig(hide_empty_workspaces) ==
    /\ ~panicked
    /\ monitor_info' =
          [monitor_info EXCEPT !.hide_empty_workspaces = hide_empty_workspaces]
    /\ bar' = KomorebiFrom(EnabledConfig(hide_empty_workspaces))
    /\ last' = [op |-> "update_from_config"]
    /\ sends' = <<>>
    /\ UNCHANGED <<panicked, state, proj_ws, wm, queue, proj, frame>>

(***************************************************************************)
(* The notification path: every notification is applied by update, with    *)
(* the bar's monitor connected or not.                                     *)
(***************************************************************************)
Next ==
    \/ \E sel \in Selectors, st \in States, sh \in BOOLEAN : Update(sel, st, sh)
    \/ \E h \in BOOLEAN : UpdateFromConfig(h)

Spec == Init /\ [][Next]_vars

(***************************************************************************)
(* Commands (komorebi_client::SocketMessage) and the clicks that send      *)
(* them.  send_batch and send_message either deliver everything or fail.   *)
(***************************************************************************)
MouseFollowsFocus(b) == <<"MouseFollowsFocus", b>>
FocusMonitorWorkspaceNumber(m, i) == <<"FocusMonitorWorkspaceNumber", m, i>>
FocusStackWindow(i) == <<"FocusStackWindow", i>>
FocusMonitorAtCursor == <<"FocusMonitorAtCursor">>
ToggleWorkspaceLayer == <<"ToggleWorkspaceLayer">>
ToggleLock == <<"ToggleLock">>
ReplaceConfiguration(path) == <<"ReplaceConfiguration", path>>

\* MonitorInfo::focused_workspace, focused_workspace_layer, focused_container
focused_workspace(info) ==
    IF IsSome(info.focused_workspace_idx)
    THEN RingFocused(info.workspaces, Unwrap(info.focused_workspace_idx))
    ELSE None

focused_workspace_layer(info) ==
    IF IsSome(focused_workspace(info))
    THEN Some(Unwrap(focused_workspace(info)).layer)
    ELSE None

\* WorkspaceInfo::focused_container
workspace_focused_container(ws) ==
    IF IsSome(ws.focused_container_idx)
    THEN RingFocused(ws.containers, Unwrap(ws.focused_container_idx))
    ELSE None

focused_container(info) ==
    IF IsSome(focused_workspace(info))
    THEN workspace_focused_container(Unwrap(focused_workspace(info)))
    ELSE None

\* mutant: the three commands go out as three sends
send_socket_message_separate(monitor, message) ==
    IF monitor.mouse_follows_focus
    THEN << <<MouseFollowsFocus(FALSE)>>, <<message>>, <<MouseFollowsFocus(TRUE)>> >>
    ELSE << <<message>> >>

\* Komorebi::send_socket_message: the send_batch calls it makes
send_socket_message(monitor, message) ==
    << IF monitor.mouse_follows_focus
       THEN <<MouseFollowsFocus(FALSE), message, MouseFollowsFocus(TRUE)>>
       ELSE <<message>> >>

\* mutant: the index is written whatever the send returned
select_workspace_update_ignores_result(info, index, ok) ==
    [info EXCEPT !.focused_workspace_idx = Some(index)]

\* mutant: the index written is the entry's place among the shown entries
select_workspace_update_shown_position(info, index, ok) ==
    IF ok
    THEN [info EXCEPT !.focused_workspace_idx =
             Some(Cardinality({i \in 1..index : info.workspaces[i].should_show}))]
    ELSE info

\* mutant: the index is left for the next notification to set
select_workspace_update_never(info, index, ok) == info

\* Komorebi::render_workspaces, the entry of workspace `index` is clicked
select_workspace_update(info, index, ok) ==
    IF ok THEN [info EXCEPT !.focused_workspace_idx = Some(index)] ELSE info

ClickWorkspace(index, ok) ==
    /\ ~panicked
    /\ IsSome(bar.workspaces)
    /\ Unwrap(bar.workspaces).enable
    /\ monitor_info.workspaces # <<>>
    /\ index < Len(monitor_info.workspaces)
    /\ monitor_info.workspaces[index + 1].should_show
    /\ sends' = send_socket_message(
                    monitor_info,
                    FocusMonitorWorkspaceNumber(monitor_info.monitor_index, index))
    /\ monitor_info' = select_workspace_update(monitor_info, index, ok)
    /\ last' = [op |-> "select_workspace", index |-> index, ok |-> ok]
    /\ UNCHANGED <<panicked, state, proj_ws, wm, queue, proj, bar, frame>>

\* mutant: the focused window of a container is never sent, whatever the
\* number of windows
window_click_sends_never_focused(info, idx) ==
    LET container == Unwrap(focused_container(info))
        selected == idx = container.focused_window_idx
    IN  IF selected THEN <<>>
        ELSE send_socket_message(info, FocusStackWindow(idx))

\* Komorebi::render_focused_container, window `idx` of the focused
\* container is clicked
window_click_sends(info, idx) ==
    LET container == Unwrap(focused_container(info))
        selected == idx = container.focused_window_idx /\ Len(container.windows) # 1
    IN  IF selected THEN <<>>
        ELSE send_socket_message(info, FocusStackWindow(idx))

ClickWindow(idx, ok) ==
    /\ ~panicked
    /\ IsSome(bar.focused_container)
    /\ Unwrap(bar.focused_container).enable
    /\ IsSome(focused_container(monitor_info))
    /\ idx < Len(Unwrap(focused_container(monitor_info)).windows)
    /\ sends' = window_click_sends(monitor_info, idx)
    /\ last' = [op |-> "select_window", index |-> idx,
                ok |-> ok /\ sends' # <<>>]
    /\ UNCHANGED <<monitor_info, panicked, state, proj_ws, wm, queue, proj, bar, frame>>

\* mutant: mouse-follows-focus is switched back on whatever the model says
layer_toggle_sends_restores_true(info) ==
    << << FocusMonitorAtCursor,
          MouseFollowsFocus(FALSE),
          ToggleWorkspaceLayer,
          MouseFollowsFocus(TRUE) >> >>

\* Komorebi::render, the workspace-layer widget is clicked
layer_toggle_sends(info) ==
    << << FocusMonitorAtCursor,
          MouseFollowsFocus(FALSE),
          ToggleWorkspaceLayer,
          MouseFollowsFocus(info.mouse_follows_focus) >> >>

ClickLayer(show_when_tiling, ok) ==
    /\ ~panicked
    /\ IsSome(focused_workspace_layer(monitor_info))
    /\ \/ show_when_tiling /\ Unwrap(focused_workspace_layer(monitor_info)) = "Tiling"
       \/ Unwrap(focused_workspace_layer(monitor_info)) = "Floating"
    /\ sends' = layer_toggle_sends(monitor_info)
    /\ last' = [op |-> "toggle_layer", ok |-> ok]
    /\ UNCHANGED <<monitor_info, panicked, state, proj_ws, wm, queue, proj, bar, frame>>

\* Komorebi::render, the locked-container widget is clicked
lock_toggle_sends(info) == << <<FocusMonitorAtCursor, ToggleLock>> >>

ClickLock(show_when_unlocked, ok) ==
    /\ ~panicked
    /\ \/ show_when_unlocked
       \/ /\ IsSome(focused_container(monitor_info))
          /\ Unwrap(focused_container(monitor_info)).is_locked
    /\ sends' = lock_toggle_sends(monitor_info)
    /\ last' = [op |-> "toggle_lock", ok |-> ok]
    /\ UNCHANGED <<monitor_info, panicked, state, proj_ws, wm, queue, proj, bar, frame>>

\* Komorebi::render, an entry of the configuration switcher is clicked;
\* dunce::canonicalize(path).unwrap_or(path)
ConfigurationPaths == {"komorebi.json"}
Canonicalize(path, resolves) == IF resolves THEN <<"canonical", path>> ELSE <<path>>

configuration_sends(info, path, resolves) ==
    << <<ReplaceConfiguration(Canonicalize(path, resolves))>> >>

ClickConfiguration(path, resolves, ok) ==
    /\ ~panicked
    /\ sends' = configuration_sends(monitor_info, path, resolves)
    /\ last' = [op |-> "replace_configuration", ok |-> ok]
    /\ UNCHANGED <<monitor_info, panicked, state, proj_ws, wm, queue, proj, bar, frame>>

(***************************************************************************)
(* The bar of a connected monitor: notifications rebuild the model, the    *)
(* user clicks in between.                                                 *)
(***************************************************************************)
DispatchStates == {st \in States : Len(st.monitors) = MaxMonitors}

NextDispatch ==
    \/ \E sel \in Selectors, st \in DispatchStates, sh \in BOOLEAN :
          SelectorInRange(sel, st) /\ Update(sel, st, sh)
    \/ \E h \in BOOLEAN : UpdateFromConfig(h)
    \/ \E i \in 0..(MaxWorkspaces - 1), ok \in BOOLEAN : ClickWorkspace(i, ok)
    \/ \E i \in 0..(MaxWindows - 1), ok \in BOOLEAN : ClickWindow(i, ok)
    \/ \E t \in BOOLEAN, ok \in BOOLEAN : ClickLayer(t, ok)
    \/ \E u \in BOOLEAN, ok \in BOOLEAN : ClickLock(u, ok)
    \/ \E p \in ConfigurationPaths, r \in BOOLEAN, ok \in BOOLEAN :
          ClickConfiguration(p, r, ok)

SpecDispatch == Init /\ [][NextDispatch]_vars

(***************************************************************************)
(* The container projector alone (ContainerInfo::from_all_containers and   *)
(* from_focused_container) on generated workspaces: up to MaxContainers    *)
(* tiled containers, any focused-container index up to MaxContainers, a    *)
(* monocle container or none, up to MaxFloats floating windows of which    *)
(* at most one is the foreground window.                                   *)
(***************************************************************************)
\* the i-th tiled container: 1..MaxWindows windows, its own window ids
TiledContainer(i) ==
    Container([w \in 1..(((i - 1) % MaxWindows) + 1) |-> Window(10 * i + w, FALSE)],
              (i - 1) % MaxWindows, i % 2 = 0)

MonocleContainers ==
    { Container([w \in 1..n |-> Window(100 + w, FALSE)], f, l) :
        n \in 1..MaxWindows, f \in 0..MaxWindows, l \in BOOLEAN }

\* n floating windows, the one at `focused` (if any) in the foreground
FloatingWindows(n, focused) == [w \in 1..n |-> Window(200 + w, w = focused)]

GeneratedWorkspaces ==
    { Workspace(None,
                [i \in 1..n |-> TiledContainer(i)],
                f, m, FloatingWindows(fl, ff),
                layer = "Tiling", layer, <<"Default", "BSP">>) :
        n \in 0..MaxContainers, f \in 0..MaxContainers,
        m \in {None} \cup {Some(c) : c \in MonocleContainers},
        fl \in 0..MaxFloats, ff \in 0..MaxFloats,
        layer \in {"Tiling", "Floating"} }

InitProj ==
    /\ monitor_info = NewMonitorInfo(0, FALSE)
    /\ panicked = FALSE
    /\ sends = <<>>
    /\ state = None
    /\ last = [op |-> "new"]
    /\ proj_ws \in {Some(ws) : ws \in GeneratedWorkspaces}
    /\ proj = None
    /\ bar = KomorebiFrom(KomorebiConfig(None, None))
    /\ frame = None
    /\ wm = [mouse_follows_focus |-> TRUE, focused |-> 0]
    /\ queue = <<>>

Project ==
    /\ proj = None
    /\ proj' = Some([all |-> from_all_containers(Unwrap(proj_ws)),
                     focused |-> from_focused_container(Unwrap(proj_ws))])
    /\ UNCHANGED <<monitor_info, panicked, sends, state, last, proj_ws, wm, queue, bar, frame>>

NextProj == Project

SpecProj == InitProj /\ [][NextProj]_vars

(***************************************************************************)
(* The widgets alone: the bar is made from a configuration, made again     *)
(* when the configuration changes, and its renderers are called on the     *)
(* workspaces and windows a model can hold.                                *)
(***************************************************************************)
WorkspacesConfigs ==
    {None} \cup { Some([enable |-> TRUE, hide_empty_workspaces |-> FALSE, display |-> d]) :
                    d \in {None} \cup {Some(f) : f \in WorkspacesDisplayFormats} }

FocusedContainerConfigs ==
    {None}
    \cup { Some([enable |-> TRUE, show_icon |-> None, display |-> Some(f)]) :
             f \in DisplayFormats }
    \cup { Some([enable |-> TRUE, show_icon |-> i, display |-> None]) :
             i \in {None, Some(TRUE), Some(FALSE)} }
    \cup { Some([enable |-> TRUE, show_icon |-> Some(TRUE), display |-> Some("Icon")]) }

KomorebiConfigs ==
    { KomorebiConfig(w, f) : w \in WorkspacesConfigs, f \in FocusedContainerConfigs }

\* the catalogue's workspaces as MonitorInfo::workspaces builds them, in
\* both icon modes, selected or not
RenderedWorkspaces ==
    { workspace_info(all, FALSE, Some(sel), 0, WorkspaceCatalogue[c]) :
        all \in BOOLEAN, sel \in {0, 1}, c \in 1..Len(WorkspaceCatalogue) }

\* windows with and without title, with and without icon
RenderedWindows == { WindowInfoFrom(Window(h, FALSE)) : h \in {1, 2, 3, 6} }

InitRender ==
    /\ monitor_info = NewMonitorInfo(0, FALSE)
    /\ panicked = FALSE
    /\ sends = <<>>
    /\ state = None
    /\ last = [op |-> "new"]
    /\ proj_ws = None
    /\ proj = None
    /\ bar \in {KomorebiFrom(c) : c \in KomorebiConfigs}
    /\ frame = None
    /\ wm = [mouse_follows_focus |-> TRUE, focused |-> 0]
    /\ queue = <<>>

\* mutant: a workspaces widget that exists keeps the renderer it has
Reconfigure_keeps_renderer(config) ==
    /\ bar' = [KomorebiFrom(config) EXCEPT
                  !.workspaces = IF IsSome(bar.workspaces) /\ IsSome(config.workspaces)
                                 THEN bar.workspaces ELSE @]
    /\ frame' = None
    /\ UNCHANGED <<monitor_info, panicked, sends, state, last, proj_ws, wm, queue, proj>>

\* the configuration changed: the widget is made again from the new one
Reconfigure(config) ==
    /\ bar' = KomorebiFrom(config)
    /\ frame' = None
    /\ UNCHANGED <<monitor_info, panicked, sends, state, last, proj_ws, wm, queue, proj>>

\* Komorebi::render_workspaces, one entry
RenderWorkspace(ws) ==
    /\ IsSome(bar.workspaces)
    /\ Unwrap(bar.workspaces).enable
    /\ ws.should_show
    /\ frame' = [widget |-> "workspaces", ws |-> ws,
                 drawn |-> WorkspaceRender(Unwrap(bar.workspaces), ws)]
    /\ UNCHANGED <<monitor_info, panicked, sends, state, last, proj_ws, wm, queue, proj, bar>>

\* Komorebi::render_focused_container, one window
RenderWindow(info, selected, focused) ==
    /\ IsSome(bar.focused_container)
    /\ Unwrap(bar.focused_container).enable
    /\ selected => focused
    /\ frame' = [widget |-> "focused_container", info |-> info, focused |-> focused,
                 drawn |-> WindowRender(Unwrap(bar.focused_container), info,
                                        IF selected THEN "selection" ELSE "text",
                                        focused)]
    /\ UNCHANGED <<monitor_info, panicked, sends, state, last, proj_ws, wm, queue, proj, bar>>

NextRender ==
    \/ \E c \in KomorebiConfigs : Reconfigure(c)
    \/ \E ws \in RenderedWorkspaces : RenderWorkspace(ws)
    \/ \E info \in RenderedWindows, sel \in BOOLEAN, foc \in BOOLEAN :
          RenderWindow(info, sel, foc)

SpecRender == InitRender /\ [][NextRender]_vars

(***************************************************************************)
(* The bar and the window manager side by side.  The window manager        *)
(* handles the commands of a batch in order and notifies its subscribers   *)
(* with its State after each; its user can change mouse-follows-focus at   *)
(* any time; the bar handles the notifications one by one, later.          *)
(***************************************************************************)
\* notifications in flight at most
MaxQueue == 4

\* the State the window manager reports
WmState(w) ==
    [monitors |-> FullList(1, w.focused),
     is_paused |-> FALSE,
     mouse_follows_focus |-> w.mouse_follows_focus,
     monitor_usr_idx_map |-> UsrIdxMap(MaxMonitors)]

\* the window manager handles one command
WmProcess(w, message) ==
    CASE message[1] = "MouseFollowsFocus" ->
            [w EXCEPT !.mouse_follows_focus = message[2]]
      [] message[1] = "FocusMonitorWorkspaceNumber" /\ message[2] = 0 ->
            [w EXCEPT !.focused = message[3]]
      [] OTHER -> w

\* ... and a batch, command by command
RECURSIVE WmProcessBatch(_, _)
WmProcessBatch(w, batch) ==
    IF batch = <<>> THEN w
    ELSE WmProcessBatch(WmProcess(w, Head(batch)), Tail(batch))

\* the notifications of a batch: the State after each command
RECURSIVE WmNotifications(_, _)
WmNotifications(w, batch) ==
    IF batch = <<>> THEN <<>>
    ELSE <<WmState(WmProcess(w, Head(batch)))>>
            \o WmNotifications(WmProcess(w, Head(batch)), Tail(batch))

InitWm ==
    /\ monitor_info = NewMonitorInfo(0, FALSE)
    /\ bar = KomorebiFrom(EnabledConfig(FALSE))
    /\ panicked = FALSE
    /\ sends = <<>>
    /\ state = None
    /\ last = [op |-> "new"]
    /\ proj_ws = None
    /\ proj = None
    /\ frame = None
    /\ wm \in {[mouse_follows_focus |-> m, focused |-> 0] : m \in BOOLEAN}
    /\ queue = <<WmState(wm)>>

\* the user of the window manager switches mouse-follows-focus
WmMouseFollowsFocus(enable) ==
    /\ wm.mouse_follows_focus # enable
    /\ Len(queue) < MaxQueue
    /\ wm' = [wm EXCEPT !.mouse_follows_focus = enable]
    /\ queue' = Append(queue, WmState(wm'))
    /\ last' = [op |-> "wm_mouse_follows_focus"]
    /\ sends' = <<>>
    /\ UNCHANGED <<monitor_info, panicked, state, proj_ws, proj, bar, frame>>

\* KomorebiNotificationStateNew::handle_notification on the oldest
\* notification: update with the bar's monitor, which is connected
HandleNotification ==
    /\ queue # <<>>
    /\ LET st == Head(queue)
           head == update_head(monitor_info, st, FALSE)
           mon == update_monitor(head, monitor_info.monitor_index, st)
       IN  /\ SelectorInRange(Some(monitor_info.monitor_index), st)
           /\ FocusedWorkspaceInBounds(mon, st)
           /\ monitor_info' = update_rebuild(mon, st)
           /\ state' = Some(st)
    /\ queue' = Tail(queue)
    /\ last' = [op |-> "update", outcome |-> "rebuilt", optimistic |-> FALSE]
    /\ sends' = <<>>
    /\ UNCHANGED <<panicked, proj_ws, proj, bar, frame, wm>>

\* a batch goes out: if the send succeeds the window manager handles it
\* whole before anything else, and notifies
WmReceives(batches, ok) ==
    IF ok /\ batches # <<>>
    THEN /\ Len(queue) + Len(batches[1]) <= MaxQueue
         /\ wm' = WmProcessBatch(wm, batches[1])
         /\ queue' = queue \o WmNotifications(wm, batches[1])
    ELSE UNCHANGED <<wm, queue>>

\* Komorebi::render_workspaces, the entry of workspace `index` is clicked
WmClickWorkspace(index, ok) ==
    /\ IsSome(bar.workspaces)
    /\ Unwrap(bar.workspaces).enable
    /\ monitor_info.workspaces # <<>>
    /\ index < Len(monitor_info.workspaces)
    /\ monitor_info.workspaces[index + 1].should_show
    /\ sends' = send_socket_message(
                    monitor_info,
                    FocusMonitorWorkspaceNumber(monitor_info.monitor_index, index))
    /\ WmReceives(sends', ok)
    /\ monitor_info' = select_workspace_update(monitor_info, index, ok)
    /\ last' = [op |-> "select_workspace", index |-> index, ok |-> ok]
    /\ UNCHANGED <<panicked, state, proj_ws, proj, bar, frame>>

\* Komorebi::render, the workspace-layer widget is clicked
WmClickLayer(ok) ==
    /\ IsSome(focused_workspace_layer(monitor_info))
    /\ sends' = layer_toggle_sends(monitor_info)
    /\ WmReceives(sends', ok)
    /\ last' = [op |-> "toggle_layer", ok |-> ok]
    /\ UNCHANGED <<monitor_info, panicked, state, proj_ws, proj, bar, frame>>

NextWm ==
    \/ \E e \in BOOLEAN : WmMouseFollowsFocus(e)
    \/ HandleNotification
    \/ \E i \in 0..(MaxWorkspaces - 1), ok \in BOOLEAN : WmClickWorkspace(i, ok)
    \/ \E ok \in BOOLEAN : WmClickLayer(ok)

SpecWm == InitWm /\ [][NextWm]_vars

(***************************************************************************)
(* Properties of the synchronizer (MonitorInfo::update)                    *)
(***************************************************************************)
\* the snapshot's monitor the model was last rebuilt from, and its
\* focused workspace
SyncedState == Unwrap(state)
SyncedMonitor == SyncedState.monitors[monitor_info.monitor_index + 1]
SyncedFocusedWorkspace == SyncedMonitor.workspaces[SyncedMonitor.focused + 1]
Rebuilt == last.op = "update" /\ last.outcome = "rebuilt"

\* C1: an update whose monitor selector is out of range for the snapshot's
\* monitors leaves every field of the model as it was before the call.
C1_OutOfRangeLeavesModelUntouched ==
    [][(last'.op = "update" /\ last'.outcome = "out_of_range")
          => monitor_info' = monitor_info]_vars

\* C2: after update returns, focused_workspace_idx is None or inside
\* workspaces, every focused_container_idx is None or inside its containers,
\* and every focused_window_idx of a non-empty container is inside its
\* windows.
IndexValid(idx, seq) == idx = None \/ Unwrap(idx) < Len(seq)

C2_FocusIndicesValid ==
    (last.op = "update" /\ ~panicked) =>
        /\ IndexValid(monitor_info.focused_workspace_idx, monitor_info.workspaces)
        /\ \A w \in 1..Len(monitor_info.workspaces) :
              LET ws == monitor_info.workspaces[w]
              IN  /\ IndexValid(ws.focused_container_idx, ws.containers)
                  /\ \A c \in 1..Len(ws.containers) :
                        ws.containers[c].windows # <<>> =>
                            ws.containers[c].focused_window_idx
                                < Len(ws.containers[c].windows)

\* C3: in all-icons mode the containers come out as monocle, tiled,
\* floating, and at most one of them is flagged focused: the focused
\* floating window if there is one (also next to a monocle container), else
\* the monocle container, else the tiled container at the workspace's
\* focused-container index (none when that index names no container).
C3_AllIconsFocusPrecedence ==
    IsSome(proj) =>
        LET ws == Unwrap(proj_ws)
            all == Unwrap(proj).all
            flagged == {i \in 1..Len(all) : all[i].is_focused}
            nm == IF ws.monocle_container = None THEN 0 ELSE 1
            nt == Len(ws.containers)
            focused_floats == {k \in 1..Len(ws.floating_windows) :
                                  ws.floating_windows[k].is_focused}
        IN  /\ Len(all) = nm + nt + Len(ws.floating_windows)
            /\ Cardinality(flagged) <= 1
            /\ focused_floats # {} => flagged = {nm + nt + k : k \in focused_floats}
            /\ (focused_floats = {} /\ nm = 1) => flagged = {1}
            /\ (focused_floats = {} /\ nm = 0) =>
                  flagged = {i \in 1..nt : i - 1 = ws.focused}

C3_Witness ==
    /\ IsSome(proj)
    /\ IsSome(Unwrap(proj_ws).monocle_container)
    /\ Unwrap(proj_ws).containers # <<>>
    /\ \E k \in 1..Len(Unwrap(proj_ws).floating_windows) :
          /\ Unwrap(proj_ws).floating_windows[k].is_focused
          /\ Unwrap(proj).all[1 + Len(Unwrap(proj_ws).containers) + k].is_focused
    /\ ~Unwrap(proj).all[1].is_focused

\* C4: after an update that rebuilt the model, layout is decided by the
\* snapshot's focused workspace of the selected monitor, first match wins:
\* monocle container -> Monocle; not tiling -> Floating; paused -> Paused;
\* else the workspace's own layout (a Default variant as it is, or Custom).
C4_LayoutPrecedence ==
    Rebuilt =>
        LET ws == SyncedFocusedWorkspace
            monocle == ws.monocle_container # None
        IN  /\ monocle => monitor_info.layout = <<"Monocle">>
            /\ (~monocle /\ ~ws.tile) => monitor_info.layout = <<"Floating">>
            /\ (~monocle /\ ws.tile /\ SyncedState.is_paused)
                  => monitor_info.layout = <<"Paused">>
            /\ (~monocle /\ ws.tile /\ ~SyncedState.is_paused)
                  => monitor_info.layout =
                        IF ws.layout = <<"Custom">> THEN <<"Custom">> ELSE ws.layout

\* paused, not tiling, no monocle container: Floating
C4_Witness ==
    /\ Rebuilt
    /\ SyncedState.is_paused
    /\ ~SyncedFocusedWorkspace.tile
    /\ SyncedFocusedWorkspace.monocle_container = None
    /\ monitor_info.layout = <<"Floating">>

\* C5: after an update that rebuilt the model, a workspace's should_show is
\* false exactly when hide-empty is on, the workspace is not the snapshot's
\* focused workspace, and the workspace has no window.
HasNoWindows(ws) ==
    /\ \A c \in 1..Len(ws.containers) : ws.containers[c].windows = <<>>
    /\ ws.monocle_container # None => Unwrap(ws.monocle_container).windows = <<>>
    /\ ws.floating_windows = <<>>

C5_ShouldShow ==
    Rebuilt =>
        /\ Len(monitor_info.workspaces) = Len(SyncedMonitor.workspaces)
        /\ \A i \in 1..Len(monitor_info.workspaces) :
              monitor_info.workspaces[i].should_show
                  = ~( /\ monitor_info.hide_empty_workspaces
                       /\ i - 1 # SyncedMonitor.focused
                       /\ HasNoWindows(SyncedMonitor.workspaces[i]) )

\* an empty workspace is hidden while the (non-empty) focused one is shown
C5_Witness ==
    /\ Rebuilt
    /\ monitor_info.hide_empty_workspaces
    /\ \E i, j \in 1..Len(monitor_info.workspaces) :
          /\ ~monitor_info.workspaces[i].should_show
          /\ monitor_info.workspaces[j].should_show

\* C10 as claimed: an update with no selector keeps the monitor index and,
\* that index being in range, rebuilds the model from that monitor of the
\* snapshot.
C10_AbsentSelectorRebuilds ==
    [][\A st \in States, sh \in BOOLEAN :
          ( /\ Update(None, st, sh)
            /\ monitor_info.monitor_index < Len(st.monitors)
            /\ FocusedWorkspaceInBounds(monitor_info, st) )
          => monitor_info' =
                update_rebuild(
                    update_monitor(update_head(monitor_info, st, sh),
                                   monitor_info.monitor_index, st),
                    st)]_vars

\* C10 amended: an update with no selector keeps the monitor index and
\* returns at once, like one with a selector out of range: mouse-follow
\* flag, work-area offset, focused workspace index, layout and workspaces
\* (and hide_empty_workspaces, stack_accent) are what they were; nothing
\* panics.
C10_AbsentSelectorShortCircuits ==
    [][(last'.op = "update" /\ last'.outcome = "absent") =>
          /\ monitor_info' =
                [monitor_info EXCEPT
                    !.show_all_icons = monitor_info'.show_all_icons,
                    !.monitor_usr_idx_map = monitor_info'.monitor_usr_idx_map]
          /\ ~panicked']_vars

\* a model built from a snapshot survives an update without selector whose
\* snapshot says otherwise
C10_Witness ==
    /\ last.op = "update" /\ last.outcome = "absent"
    /\ monitor_info.workspaces # <<>>
    /\ IsSome(state)
    /\ monitor_info.monitor_usr_idx_map # SyncedState.monitor_usr_idx_map

(***************************************************************************)
(* Properties of the dispatcher (the click handlers)                       *)
(***************************************************************************)
DispatchOps ==
    {"select_workspace", "select_window", "toggle_layer", "toggle_lock",
     "replace_configuration"}

\* a command between mouse-follows-focus off and on when the model's flag
\* is set, the command alone otherwise
WrappedIfFollowing(command) ==
    IF monitor_info.mouse_follows_focus
    THEN <<MouseFollowsFocus(FALSE), command, MouseFollowsFocus(TRUE)>>
    ELSE <<command>>

\* C6: a click that selects workspace i or stacked window j sends exactly
\* one batch: [MouseFollowsFocus(false), command, MouseFollowsFocus(true)]
\* if the model's mouse_follows_focus is true, [command] if it is false.
C6_SelectBatchWrapped ==
    /\ last.op = "select_workspace" =>
          sends = << WrappedIfFollowing(
                        FocusMonitorWorkspaceNumber(monitor_info.monitor_index,
                                                    last.index)) >>
    /\ (last.op = "select_window" /\ sends # <<>>) =>
          sends = << WrappedIfFollowing(FocusStackWindow(last.index)) >>

C6_Witness ==
    /\ last.op = "select_workspace"
    /\ monitor_info.mouse_follows_focus
    /\ Len(sends) = 1
    /\ Len(sends[1]) = 3
    /\ sends[1][2] = FocusMonitorWorkspaceNumber(monitor_info.monitor_index, last.index)

\* C7: a click whose batch fails to send changes no field of the model and
\* does not stop the bar.
C7_FailedSendLeavesModel ==
    [][(last'.op \in DispatchOps /\ sends' # <<>> /\ ~last'.ok)
          => (monitor_info' = monitor_info /\ ~panicked')]_vars

\* the failed click was on a workspace other than the selected one
C7_Witness ==
    /\ last.op = "select_workspace"
    /\ ~last.ok
    /\ sends # <<>>
    /\ monitor_info.focused_workspace_idx # Some(last.index)
    /\ ~panicked

\* C8 as claimed: after a successful select-workspace i the model's
\* focused_workspace_idx is i, and after a successful select-stacked-window
\* j the focused container's focused_window_idx is j.
C8_EverySelectIsOptimistic ==
    /\ (last.op = "select_workspace" /\ last.ok) =>
          monitor_info.focused_workspace_idx = Some(last.index)
    /\ (last.op = "select_window" /\ last.ok) =>
          Unwrap(focused_container(monitor_info)).focused_window_idx = last.index

\* C8 amended: a successful select-workspace i sets focused_workspace_idx
\* to i at once and touches nothing else; a select-stacked-window click,
\* sent or not, successful or not, changes no field of the model.
C8_OnlyWorkspaceSelectIsOptimistic ==
    [][/\ (last'.op = "select_workspace" /\ last'.ok) =>
             monitor_info' =
                [monitor_info EXCEPT !.focused_workspace_idx = Some(last'.index)]
       /\ last'.op = "select_window" => monitor_info' = monitor_info]_vars

\* the index set by the click is not the one the last notification gave
C8_Witness ==
    /\ last.op = "select_workspace"
    /\ last.ok
    /\ monitor_info.focused_workspace_idx = Some(last.index)
    /\ IsSome(state)
    /\ SyncedMonitor.focused # last.index

\* C9 as claimed: the layer toggle and the lock toggle send
\* focus-monitor-at-cursor first and wrap their command like the selects
\* (mouse-follows-focus off/on around it iff the model's flag is set); the
\* configuration switch sends one bare command.
C9_TogglesWrapLikeSelects ==
    /\ last.op = "toggle_layer" =>
          sends = << <<FocusMonitorAtCursor>> \o WrappedIfFollowing(ToggleWorkspaceLayer) >>
    /\ last.op = "toggle_lock" =>
          sends = << <<FocusMonitorAtCursor>> \o WrappedIfFollowing(ToggleLock) >>
    /\ last.op = "replace_configuration" =>
          /\ Len(sends) = 1
          /\ Len(sends[1]) = 1
          /\ sends[1][1][1] = "ReplaceConfiguration"

\* C9 amended: both toggles send focus-monitor-at-cursor first. The layer
\* toggle always sends [FocusMonitorAtCursor, MouseFollowsFocus(false),
\* ToggleWorkspaceLayer, MouseFollowsFocus(f)], f the model's flag; the lock
\* toggle always sends [FocusMonitorAtCursor, ToggleLock]; the
\* configuration switch sends one bare ReplaceConfiguration.
C9_ToggleBatches ==
    /\ last.op = "toggle_layer" =>
          sends = << << FocusMonitorAtCursor,
                        MouseFollowsFocus(FALSE),
                        ToggleWorkspaceLayer,
                        MouseFollowsFocus(monitor_info.mouse_follows_focus) >> >>
    /\ last.op = "toggle_lock" =>
          sends = << <<FocusMonitorAtCursor, ToggleLock>> >>
    /\ last.op = "replace_configuration" =>
          /\ Len(sends) = 1
          /\ Len(sends[1]) = 1
          /\ sends[1][1][1] = "ReplaceConfiguration"

\* the layer toggle of a bar whose model has mouse-follows-focus off
C9_Witness ==
    /\ last.op = "toggle_layer"
    /\ ~monitor_info.mouse_follows_focus
    /\ Len(sends[1]) = 4
    /\ sends[1][4] = MouseFollowsFocus(FALSE)

(***************************************************************************)
(* Properties of the container projector in single-icon mode               *)
(***************************************************************************)
\* C11: in single-icon mode a workspace emits one container, the focused
\* floating window if there is one, else the monocle container, else the
\* focused tiled container; it emits none exactly when the workspace has
\* no open window.
C11_SingleIconPrecedence ==
    IsSome(proj) =>
        LET ws == Unwrap(proj_ws)
            emitted == Unwrap(proj).focused
            focused_floats == {k \in 1..Len(ws.floating_windows) :
                                  ws.floating_windows[k].is_focused}
        IN  /\ (emitted = None) <=> HasNoWindows(ws)
            /\ focused_floats # {} =>
                  \E k \in focused_floats :
                      emitted = Some([windows |-> <<WindowInfoFrom(ws.floating_windows[k])>>,
                                      focused_window_idx |-> 0,
                                      is_focused |-> TRUE,
                                      is_locked |-> FALSE])
            /\ (focused_floats = {} /\ ws.monocle_container # None) =>
                  /\ emitted # None
                  /\ Unwrap(emitted).is_focused
                  /\ Len(Unwrap(emitted).windows) = Len(Unwrap(ws.monocle_container).windows)
                  /\ Unwrap(emitted).is_locked = Unwrap(ws.monocle_container).locked
                  /\ Unwrap(emitted).windows[1] =
                        WindowInfoFrom(Unwrap(ws.monocle_container).windows[1])
            /\ (focused_floats = {} /\ ws.monocle_container = None
                    /\ ws.focused < Len(ws.containers)) =>
                  /\ emitted # None
                  /\ Unwrap(emitted).is_focused
                  /\ Unwrap(emitted).windows[1] =
                        WindowInfoFrom(ws.containers[ws.focused + 1].windows[1])

(***************************************************************************)
(* More properties of the synchronizer                                     *)
(***************************************************************************)
\* C12: whatever the clicks before it did, an update with a selector in
\* range that returns leaves focused_workspace_idx at the State's own
\* focused workspace index of that monitor, and workspaces with one entry
\* per workspace of the State, in the State's order.
C12_UpdateDiscardsOptimisticIndex ==
    Rebuilt =>
        /\ monitor_info.focused_workspace_idx = Some(SyncedMonitor.focused)
        /\ Len(monitor_info.workspaces) = Len(SyncedMonitor.workspaces)
        /\ \A i \in 1..Len(monitor_info.workspaces) :
              /\ monitor_info.workspaces[i].name =
                    IF SyncedMonitor.workspaces[i].name = None
                    THEN ToString(i)
                    ELSE Unwrap(SyncedMonitor.workspaces[i].name)
              /\ monitor_info.workspaces[i].layer = SyncedMonitor.workspaces[i].layer

\* the update replaced an index a successful click had just written
C12_Witness ==
    /\ Rebuilt
    /\ last.optimistic
    /\ monitor_info.focused_workspace_idx = Some(SyncedMonitor.focused)

\* C16: an update with a selector in range never aborts, whatever the
\* State: also when the selected monitor has no workspace or reports a
\* focused workspace index beyond its workspaces.
C16_UpdateNeverAborts ==
    last.op = "update" => ~panicked

\* C20: an update that returns early (selector absent or out of range)
\* leaves workspaces, layout, focused_workspace_idx, mouse_follows_focus,
\* work_area_offset, monitor_index and hide_empty_workspaces (and
\* stack_accent) as they were, and sets show_all_icons and
\* monitor_usr_idx_map to the call's arguments.
C20_EarlyReturnFrame ==
    [][(last'.op = "update" /\ last'.outcome \in {"absent", "out_of_range"}) =>
          /\ monitor_info'.workspaces = monitor_info.workspaces
          /\ monitor_info'.layout = monitor_info.layout
          /\ monitor_info'.focused_workspace_idx = monitor_info.focused_workspace_idx
          /\ monitor_info'.mouse_follows_focus = monitor_info.mouse_follows_focus
          /\ monitor_info'.work_area_offset = monitor_info.work_area_offset
          /\ monitor_info'.monitor_index = monitor_info.monitor_index
          /\ monitor_info'.hide_empty_workspaces = monitor_info.hide_empty_workspaces
          /\ monitor_info'.stack_accent = monitor_info.stack_accent
          /\ monitor_info'.show_all_icons = last'.args.show_all_icons
          /\ monitor_info'.monitor_usr_idx_map = last'.args.monitor_usr_idx_map]_vars

\* after an early return show_all_icons is not the mode the retained
\* workspaces were built in
C20_Witness ==
    /\ last.op = "update"
    /\ last.outcome = "out_of_range"
    /\ IsSome(state)
    /\ monitor_info.workspaces # <<>>
    /\ monitor_info.workspaces =
          workspaces(~monitor_info.show_all_icons,
                     monitor_info.hide_empty_workspaces,
                     monitor_info.focused_workspace_idx,
                     SyncedMonitor.workspaces)
    /\ monitor_info.workspaces #
          workspaces(monitor_info.show_all_icons,
                     monitor_info.hide_empty_workspaces,
                     monitor_info.focused_workspace_idx,
                     SyncedMonitor.workspaces)

(***************************************************************************)
(* More properties of the dispatcher                                       *)
(***************************************************************************)
\* the command of a batch: the middle one of a wrapped batch, the only one
\* of a bare batch
BatchCommand(batch) == IF Len(batch) = 3 THEN batch[2] ELSE batch[1]

\* C17: a click on window idx of the focused-container widget sends
\* FocusStackWindow(idx), unless idx is the container's focused window and
\* the container has more than one window: then nothing is sent.  The only
\* window of a container is sent (FocusStackWindow(0)).  The click changes
\* no field of the model, whether the send succeeds or not.
C17_WindowClick ==
    [][last'.op = "select_window" =>
          LET container == Unwrap(focused_container(monitor_info))
              idx == last'.index
          IN  /\ idx < Len(container.windows)
              /\ IF idx = container.focused_window_idx /\ Len(container.windows) > 1
                 THEN sends' = <<>>
                 ELSE /\ Len(sends') = 1
                      /\ BatchCommand(sends'[1]) = FocusStackWindow(idx)
              /\ monitor_info' = monitor_info]_vars

\* the only window of the focused container was clicked
C17_Witness ==
    /\ last.op = "select_window"
    /\ last.index = 0
    /\ Len(Unwrap(focused_container(monitor_info)).windows) = 1
    /\ Unwrap(focused_container(monitor_info)).focused_window_idx = 0
    /\ Len(sends) = 1
    /\ BatchCommand(sends[1]) = FocusStackWindow(0)

\* C18: a select-workspace command is only sent for a workspace whose
\* should_show is true; it carries the model's monitor_index and the
\* workspace's position in the whole workspaces sequence, hidden ones
\* counted; on success that same position is written to
\* focused_workspace_idx, which therefore is inside workspaces.
C18_SelectWorkspaceIndex ==
    last.op = "select_workspace" =>
        /\ last.index < Len(monitor_info.workspaces)
        /\ monitor_info.workspaces[last.index + 1].should_show
        /\ Len(sends) = 1
        /\ BatchCommand(sends[1])
              = FocusMonitorWorkspaceNumber(monitor_info.monitor_index, last.index)
        /\ last.ok =>
              /\ monitor_info.focused_workspace_idx = Some(last.index)
              /\ Unwrap(monitor_info.focused_workspace_idx) < Len(monitor_info.workspaces)

\* the workspace clicked comes after a hidden one
C18_Witness ==
    /\ last.op = "select_workspace"
    /\ last.ok
    /\ last.index = 1
    /\ ~monitor_info.workspaces[1].should_show
    /\ monitor_info.focused_workspace_idx = Some(1)
    /\ BatchCommand(sends[1]) = FocusMonitorWorkspaceNumber(monitor_info.monitor_index, 1)

\* C19: in every state of a running bar workspace i has is_selected set
\* exactly when focused_workspace_idx is Some(i), also right after a
\* successful click on a workspace.
C19_SelectedAgreesWithIndex ==
    ~panicked =>
        \A i \in 1..Len(monitor_info.workspaces) :
            monitor_info.workspaces[i].is_selected
                <=> monitor_info.focused_workspace_idx = Some(i - 1)

(***************************************************************************)
(* Properties of the strategy selection and of the renderers               *)
(***************************************************************************)
WorkspaceRenderers ==
    {"show_icons_or_fallback", "show_icons_and_label", "show_icons_sel_label",
     "show_label_sel_icons", "show_text"}

\* C13: every WorkspacesDisplayFormat and every DisplayFormat of the
\* focused-container widget is given one renderer; the renderers a bar
\* holds are those its present configuration selects, whatever the bar
\* held before the configuration changed.
C13_SelectionTotalAndMemoryless ==
    /\ \A f \in WorkspacesDisplayFormats :
          WorkspacesBarFrom([enable |-> TRUE, hide_empty_workspaces |-> FALSE,
                             display |-> Some(f)]).renderer \in WorkspaceRenderers
    /\ \A f \in DisplayFormats :
          FocusedContainerBarFrom([enable |-> TRUE, show_icon |-> None,
                                   display |-> Some(f)]).renderer = f
    /\ bar.workspaces = None <=> bar.config.workspaces = None
    /\ bar.focused_container = None <=> bar.config.focused_container = None
    /\ bar.workspaces # None =>
          Unwrap(bar.workspaces) = WorkspacesBarFrom(Unwrap(bar.config.workspaces))
    /\ bar.focused_container # None =>
          Unwrap(bar.focused_container)
              = FocusedContainerBarFrom(Unwrap(bar.config.focused_container))

\* a bar whose renderers were selected and have drawn
C13_Witness ==
    /\ frame # None
    /\ bar.workspaces # None
    /\ bar.focused_container # None
    /\ Unwrap(bar.config.workspaces).display = Some(<<"AllIconsAndTextOnSelected">>)
    /\ Unwrap(bar.workspaces).renderer = "show_icons_sel_label"
    /\ Unwrap(bar.config.focused_container).display = Some("TextAndIconOnSelected")
    /\ Unwrap(bar.focused_container).renderer = "TextAndIconOnSelected"

Draws(drawn, what) == \E i \in 1..Len(drawn) : drawn[i].draw = what

\* C14: what each of the five workspace renderers draws, by has_icons and
\* is_selected:
\*   show_icons_or_fallback  icons iff has_icons, else the fallback; no label
\*   show_icons_and_label    icons iff has_icons, no fallback, the label
\*   show_icons_sel_label    icons iff has_icons, the fallback iff neither
\*                           icons nor selected, the label iff selected
\*   show_label_sel_icons    icons iff has_icons and selected, no fallback,
\*                           the label
\*   show_text               no icons, no fallback, the label
C14_WorkspaceRenderTable ==
    (frame # None /\ frame.widget = "workspaces") =>
        LET renderer == Unwrap(bar.workspaces).renderer
            ws == frame.ws
            icons == Draws(frame.drawn, "icons")
            fallback == Draws(frame.drawn, "fallback_icon")
            label == Draws(frame.drawn, "label")
        IN  /\ renderer = "show_icons_or_fallback" =>
                  /\ icons <=> ws.has_icons
                  /\ fallback <=> ~ws.has_icons
                  /\ ~label
            /\ renderer = "show_icons_and_label" =>
                  /\ icons <=> ws.has_icons
                  /\ ~fallback
                  /\ label
            /\ renderer = "show_icons_sel_label" =>
                  /\ icons <=> ws.has_icons
                  /\ fallback <=> (~ws.has_icons /\ ~ws.is_selected)
                  /\ label <=> ws.is_selected
            /\ renderer = "show_label_sel_icons" =>
                  /\ icons <=> (ws.has_icons /\ ws.is_selected)
                  /\ ~fallback
                  /\ label
            /\ renderer = "show_text" =>
                  /\ ~icons
                  /\ ~fallback
                  /\ label
            /\ renderer \in WorkspaceRenderers

\* a selected workspace without icons under show_icons_sel_label: neither
\* icons nor fallback, only the label
C14_Witness ==
    /\ frame # None
    /\ frame.widget = "workspaces"
    /\ Unwrap(bar.workspaces).renderer = "show_icons_sel_label"
    /\ ~frame.ws.has_icons
    /\ frame.ws.is_selected
    /\ frame.drawn = <<[draw |-> "label", text |-> frame.ws.name, selected |-> TRUE]>>

\* C15: what each renderer of the focused-container widget draws for a
\* window, by whether it is the focused window of the container (an icon
\* or a title that the window does not have cannot be drawn):
\*   Icon                   the icon; no title; the title as hover text
\*   Text                   no icon; the title
\*   IconAndText            the icon; the title
\*   IconAndTextOnSelected  the icon; the title iff focused
\*   TextAndIconOnSelected  the icon iff focused; the title
\* and the hover text is there under Icon only.
C15_WindowRenderTable ==
    (frame # None /\ frame.widget = "focused_container") =>
        LET renderer == Unwrap(bar.focused_container).renderer
            titled == frame.info.title # None
            icon == Draws(frame.drawn, "icon")
            title == Draws(frame.drawn, "title")
            hover == Draws(frame.drawn, "hover_text")
        IN  /\ renderer = "Icon" =>
                  icon /\ ~title /\ (hover <=> titled)
            /\ renderer = "Text" =>
                  ~icon /\ (title <=> titled) /\ ~hover
            /\ renderer = "IconAndText" =>
                  icon /\ (title <=> titled) /\ ~hover
            /\ renderer = "IconAndTextOnSelected" =>
                  icon /\ (title <=> (titled /\ frame.focused)) /\ ~hover
            /\ renderer = "TextAndIconOnSelected" =>
                  (icon <=> frame.focused) /\ (title <=> titled) /\ ~hover
            /\ renderer \in DisplayFormats
            /\ \A i \in 1..Len(frame.drawn) :
                  frame.drawn[i].draw = "icon" => frame.drawn[i].images = frame.info.icon

\* a window that is not the focused one, with title and icon, under
\* TextAndIconOnSelected: the title alone
C15_Witness ==
    /\ frame # None
    /\ frame.widget = "focused_container"
    /\ Unwrap(bar.focused_container).renderer = "TextAndIconOnSelected"
    /\ ~frame.focused
    /\ frame.info.icon # None
    /\ Len(frame.drawn) = 1
    /\ frame.drawn[1].draw = "title"

(***************************************************************************)
(* The two icon modes against each other                                   *)
(***************************************************************************)
\* C21: for every workspace, the container at focused_container_idx of the
\* all-icons list is the container single-icon mode emits (built from the
\* same monocle container, tiled container or floating window);
\* focused_container_idx of the all-icons list is None exactly when
\* single-icon mode emits nothing; and the focused_container_idx of the
\* single-icon list is Some(0) whenever a container is emitted.
C21_IconModesAgreeOnFocus ==
    IsSome(proj) =>
        LET all == Unwrap(proj).all
            emitted == Unwrap(proj).focused
            idx == PositionFocused(all)
        IN  /\ idx = None <=> emitted = None
            /\ idx # None => all[Unwrap(idx) + 1] = Unwrap(emitted)
            /\ emitted # None => PositionFocused(<<Unwrap(emitted)>>) = Some(0)

\* a focused floating window behind a monocle container and a tiled
\* container: both modes settle on the floating window
C21_Witness ==
    /\ IsSome(proj)
    /\ IsSome(Unwrap(proj_ws).monocle_container)
    /\ Unwrap(proj_ws).containers # <<>>
    /\ \E k \in 1..Len(Unwrap(proj_ws).floating_windows) :
          /\ Unwrap(proj_ws).floating_windows[k].is_focused
          /\ PositionFocused(Unwrap(proj).all)
                = Some(Len(Unwrap(proj_ws).containers) + k)
          /\ Unwrap(proj).focused
                = Some(from_window(Unwrap(proj_ws).floating_windows[k]))

(***************************************************************************)
(* The mouse-follows-focus setting of the window manager                   *)
(***************************************************************************)
\* C22: however changes of the setting on the window manager's side,
\* notifications, updates and clicks interleave, a batch that was sent
\* successfully leaves the window manager's mouse-follows-focus setting as
\* it was just before the batch, also when the model's copy of it is out
\* of date.
C22_BatchRestoresMouseFollowsFocus ==
    [][(last'.op \in DispatchOps /\ last'.ok /\ sends' # <<>>)
          => wm'.mouse_follows_focus = wm.mouse_follows_focus]_vars

====
